---------------------------- MODULE Spec2Model ----------------------------
(***************************************************************************)
(* Model of src/main.py: the portfolio valuation script.                   *)
(*                                                                         *)
(* The script runs once, top to bottom: it sets up logging, creates a      *)
(* fresh SQLite store, lets the private module insert assets, reads the    *)
(* assets back into a DataFrame, values them (exchange rate, one loop turn *)
(* per row, the final_value column), prints the table and the total and    *)
(* writes the pie chart.                                                   *)
(*                                                                         *)
(* Numbers.  Reals are modelled as exact integers in fixed units, and all  *)
(* values are dyadic so that the float arithmetic of the program is exact: *)
(*   prices (current_price)   in quarters   (1 = 0.25, 600 = 150.00)       *)
(*   quantity                 in halves     (1 = 0.5,  20 = 10.0)          *)
(*   leverage, exchange rate  in units                                     *)
(*   final_value, total       in 1/200      (2 = 0.01, 25 = 0.125)         *)
(* SQL NULL, Python None and float NaN are the one value NaN; a text rate   *)
(* is the value Str and the empty string is the value EmptyStr.            *)
(***************************************************************************)
EXTENDS Integers, Sequences, FiniteSets, TLC

VARIABLES
    pc,             \* position of the script (module level, lines 140-152);
                    \* "hung": inside a request that never answers;
                    \* "crash_19", "crash_123", "crash_151": ended by an
                    \* exception nothing catches, raised at that line
    has_private,    \* private_assets was imported (lines 11-15)
    handler,        \* where the root logger writes: "none", "file", "stderr"
    errlog,         \* records written to investment_errors.log
    console,        \* records written to stderr by the default handler
    db_ok,          \* the store could be opened and the table exists
    table,          \* rows of table assets, in id order
    n_add,          \* add_asset calls made so far by run_add_asset
    locked,         \* a connection leaked by a failed add_asset still holds
                    \* the write lock of the database file
    df,             \* the DataFrame read by get_assets (assets_df)
    objcol,         \* dtype of df["current_price"] is object (else float64)
    usd_krw,        \* the rate fetched for the run (line 113)
    rate_out,       \* what the rate feed did in this run ("-" before)
    idx,            \* next row of the loop of calculate_final_values
    hist,           \* per row: resolver calls, feed requests, feed outcome and
                    \* value, resolver result, whether the row's body raised
    final,          \* df["final_value"], <<>> until line 123 has run
    total,          \* total_value (line 150), NaN until computed
    table_printed,  \* print(assets_df) was reached (line 148)
    total_printed,  \* the total was printed (line 151)
    chart           \* "none", "saved" or "failed" (lines 127-137)

vars == <<pc, has_private, handler, errlog, console, db_ok, table, n_add,
          locked, df,
          objcol, usd_krw, rate_out, idx, hist, final, total, table_printed,
          total_printed, chart>>

\* Most add_asset calls the private module makes in one run.
MaxAssets == 2

\* SQL NULL / None / NaN.  Every real number of the model is >= 0.
NaN == -1

IsNa(x) == x = NaN

\* A rate that is text, e.g. "1300" (rates.KRW of the answer, line 106).
Str == -2

\* The empty string: what 0 * "1300" is for the int 0 of line 85.
EmptyStr == -3

\* None given for a TEXT column.
NoneText == "None"

\* Float multiplication: NaN is absorbing.
Mul(a, b) == IF IsNa(a) \/ IsNa(b) THEN NaN ELSE a * b

(***************************************************************************)
(* Inputs: the assets run_add_asset may insert, and what the feeds answer. *)
(***************************************************************************)
Asset(t, pl, tk, q, c, l, p) ==
    [asset_type |-> t, plot_type |-> pl, ticker_symbol |-> tk, quantity |-> q,
     currency |-> c, leverage |-> l, current_price |-> p]

Catalogue ==
    { Asset("stock",  "equity", "AAPL", 20, "USD", 1,   NaN),
      Asset("stock",  "equity", "005930", 1, "KRW", 1,  NaN),
      Asset("stock",  "equity", "TSLA", 1,  "KRW", 2,   600),
      Asset("crypto", "coin",   "BTC",  1,  "KRW", 2,   NaN),
      Asset("crypto", "coin",   "ETH",  1,  "USD", NaN, NaN),
      Asset("crypto", "coin",   "XRP",  1,  "USD", 1,   3),
      Asset("cash",   "cash",   "WON",  1,  "KRW", 1,   1),
      Asset("cash",   "cash",   "DOLLAR", 20, "USD", 2, 1),
      Asset("cash",   "cash",   "GOLD", 1,  "KRW", 1,   NaN),
      Asset("cash",   "cash",   "BOND", 1,  "USD", NaN, NaN),
      Asset("stock",  "equity", "NVDA", 1,  "USD", NaN, NaN),
      Asset("stock",  "equity", "NOQTY", NaN, "KRW", 1, NaN),
      Asset("cash",   "cash",   "NOCUR", 1, NoneText, 1, 1) }

StockCloses == {3, 600}
CryptoPrices == {3, 240000}
Rates == {1300, 1250}

Feed(k, v) == [kind |-> k, v |-> v]

\* What the feed of an asset type can do when it is asked.  requests.get
\* (line 91) is called without a timeout: a server that accepts the
\* connection and never answers keeps the call from returning ("hang").
FeedOutcomes(asset_type) ==
    IF asset_type = "stock"
    THEN {Feed("data", c) : c \in StockCloses}
         \cup {Feed("empty", 0), Feed("raise", 0)}
    ELSE IF asset_type = "crypto"
    THEN {Feed("ok200", p) : p \in CryptoPrices}
         \cup {Feed("non200", 0), Feed("badbody", 0), Feed("raise", 0),
               Feed("hang", 0)}
    ELSE {Feed("none", 0)}

\* The rate feed (requests.get of line 104, no timeout either).  A 200
\* answer carries rates.KRW as a number ("ok200"), as null ("null") or as
\* text ("text"), or has no such key ("nokey").
RateOutcomes ==
    {Feed("ok200", r) : r \in Rates}
    \cup {Feed("null", 0), Feed("text", 0), Feed("non200", 0), Feed("nokey", 0),
          Feed("raise", 0), Feed("hang", 0)}

\* The call of the feed does not return.
Hangs(out) == out.kind = "hang"

(***************************************************************************)
(* Logging (lines 11-20).  A record is [lvl, src, who].                    *)
(***************************************************************************)
Rec(lvl, src, who) == [lvl |-> lvl, src |-> src, who |-> who]

\* basicConfig(filename=..., level=ERROR): the file takes ERROR and above.
ToFile(h, msgs) ==
    IF h = "file" THEN SelectSeq(msgs, LAMBDA m : m.lvl = "ERROR") ELSE <<>>

\* logging.error before any basicConfig installs the default stderr handler
\* (level WARNING); the later basicConfig(filename=...) then changes nothing.
ToConsole(h, msgs) == IF h = "stderr" THEN msgs ELSE <<>>

Init ==
    /\ pc = "import"
    /\ has_private = FALSE
    /\ handler = "none"
    /\ errlog = <<>>
    /\ console = <<>>
    /\ db_ok = FALSE
    /\ table = <<>>
    /\ n_add = 0
    /\ locked = FALSE
    /\ df = <<>>
    /\ objcol = FALSE
    /\ usd_krw = NaN
    /\ rate_out = "-"
    /\ idx = 1
    /\ hist = <<>>
    /\ final = <<>>
    /\ total = NaN
    /\ table_printed = FALSE
    /\ total_printed = FALSE
    /\ chart = "none"

\* Lines 11-20: import private_assets, then configure logging.  Without the
\* module, logging.error (line 15) installs the stderr handler and basicConfig
\* (line 19) does nothing.  With it, basicConfig opens investment_errors.log:
\* when the file cannot be opened the OSError ends the script there.
ImportPrivate ==
    /\ pc = "import"
    /\ \E present, opened \in BOOLEAN :
          /\ present \/ opened
          /\ has_private' = present
          /\ handler' = IF ~present THEN "stderr"
                        ELSE IF opened THEN "file" ELSE "none"
          /\ console' = IF present THEN console
                        ELSE Append(console, Rec("ERROR", "import", "-"))
          /\ pc' = IF opened THEN "init_db" ELSE "crash_19"
    /\ UNCHANGED <<errlog, db_ok, table, n_add, locked, df, objcol, usd_krw, rate_out,
                   idx, hist, final, total, table_printed, total_printed, chart>>

\* initialize_db (lines 34-53): CREATE TABLE IF NOT EXISTS on a fresh file
\* (get_unique_filename picks a name no file has yet, so the table is empty).
InitializeDb ==
    /\ pc = "init_db"
    /\ \E ok \in BOOLEAN :
          LET msgs == IF ok THEN <<>> ELSE <<Rec("ERROR", "init_db", "-")>>
          IN  /\ db_ok' = ok
              /\ errlog' = errlog \o ToFile(handler, msgs)
              /\ console' = console \o ToConsole(handler, msgs)
    /\ pc' = IF has_private THEN "seed" ELSE "read"
    /\ UNCHANGED <<has_private, handler, table, n_add, locked, df, objcol, usd_krw,
                   rate_out, idx, hist, final, total, table_printed,
                   total_printed, chart>>

\* The INSERT of add_asset (line 59) succeeds when the store is usable, no
\* other connection holds the write lock ("database is locked" otherwise) and
\* the NOT NULL columns (lines 41-46) are given.
InsertOk(ok, held, a) ==
    /\ ok
    /\ ~held
    /\ a.asset_type # NoneText
    /\ a.plot_type # NoneText
    /\ ~IsNa(a.quantity)
    /\ a.currency # NoneText

\* add_asset (lines 55-64), called by private_assets.run_add_asset (line 142).
\* When execute raises, the except of line 63 is left without conn.close():
\* the connection of a rejected INSERT keeps its open write transaction until
\* the interpreter frees it (at once, or only at a later garbage collection),
\* and until then every other INSERT fails with "database is locked".
AddAsset ==
    /\ pc = "seed"
    /\ n_add < MaxAssets
    /\ \E a \in Catalogue, freed \in BOOLEAN :
          LET held == locked /\ ~freed
              good == InsertOk(db_ok, held, a)
              row  == [id |-> Len(table) + 1] @@ a
              msgs == IF good THEN <<>>
                      ELSE <<Rec("ERROR", "add", a.ticker_symbol)>>
          IN  /\ locked \/ freed
              /\ table' = IF good THEN Append(table, row) ELSE table
              /\ locked' = (db_ok /\ ~good)
              /\ errlog' = errlog \o ToFile(handler, msgs)
              /\ console' = console \o ToConsole(handler, msgs)
    /\ n_add' = n_add + 1
    /\ UNCHANGED <<pc, has_private, handler, db_ok, df, objcol, usd_krw,
                   rate_out, idx, hist, final, total, table_printed,
                   total_printed, chart>>

\* run_add_asset returns.
SeedDone ==
    /\ pc = "seed"
    /\ pc' = "read"
    /\ UNCHANGED <<has_private, handler, errlog, console, db_ok, table, n_add, locked,
                   df, objcol, usd_krw, rate_out, idx, hist, final, total,
                   table_printed, total_printed, chart>>

\* read_sql gives a column whose values are all NULL the dtype object (its
\* values stay None); a column with at least one number is float64 (NULL is NaN).
AllNull(rows) ==
    rows # <<>> /\ \A i \in 1..Len(rows) : IsNa(rows[i].current_price)

\* Line 146: the valuation and the report run only for a non-empty frame.
AfterRead(frame) ==
    IF frame = <<>> THEN "done" ELSE "rate"

NoHist ==
    [calls |-> 0, contacts |-> 0, feed |-> "-", fv |-> 0, ret |-> NaN,
     raised |-> FALSE]

\* get_assets (lines 66-74) and the test of line 146.
GetAssets ==
    /\ pc = "read"
    /\ LET msgs  == IF db_ok THEN <<>> ELSE <<Rec("ERROR", "read", "-")>>
           frame == IF db_ok THEN table ELSE <<>>
       IN  /\ df' = frame
           /\ objcol' = AllNull(frame)
           /\ hist' = [i \in 1..Len(frame) |-> NoHist]
           /\ errlog' = errlog \o ToFile(handler, msgs)
           /\ console' = console \o ToConsole(handler, msgs)
           /\ pc' = AfterRead(frame)
    /\ UNCHANGED <<has_private, handler, db_ok, table, n_add, locked, usd_krw, rate_out,
                   idx, final, total, table_printed, total_printed, chart>>

(***************************************************************************)
(* Price Resolver and Exchange Rate Provider                               *)
(***************************************************************************)
\* fetch_current_price (lines 76-99), as a function of what the feed does:
\* stock  "data" (last close v), "empty" (no history), "raise";
\* crypto "ok200" (price v), "non200", "badbody" (json/float fails), "raise".
fetch_current_price(asset_type, out) ==
    IF asset_type = "stock"
    THEN IF out.kind = "data" THEN out.v
         ELSE IF out.kind = "empty" THEN 0
         ELSE NaN
    ELSE IF asset_type = "crypto"
    THEN IF out.kind = "ok200" THEN out.v ELSE NaN
    ELSE NaN

\* Requests fetch_current_price sends: only the two branches have a feed.
FeedContacts(asset_type) ==
    IF asset_type \in {"stock", "crypto"} THEN 1 ELSE 0

\* What fetch_current_price hands to logging (lines 84 and 98).
PriceLog(asset_type, ticker, out) ==
    IF asset_type = "stock" /\ out.kind = "empty"
    THEN <<Rec("WARNING", "price", ticker)>>
    ELSE IF asset_type \in {"stock", "crypto"} /\ out.kind \in {"badbody", "raise"}
    THEN <<Rec("ERROR", "price", ticker)>>
    ELSE <<>>

\* fetch_usd_krw_exchange_rate (lines 101-110).  Line 106 returns rates.KRW
\* as it is in the answer: a number, None or text.
fetch_usd_krw_exchange_rate(out) ==
    IF out.kind = "ok200" THEN out.v
    ELSE IF out.kind = "null" THEN NaN
    ELSE IF out.kind = "text" THEN Str
    ELSE 1

\* What fetch_usd_krw_exchange_rate hands to logging (line 109).
RateLog(out) ==
    IF out.kind \in {"nokey", "raise"} THEN <<Rec("ERROR", "rate", "-")>> ELSE <<>>

(***************************************************************************)
(* Valuation Engine: calculate_final_values (lines 112-125)                *)
(***************************************************************************)
\* Line 113.  When the request never answers the call does not return:
\* nothing is assigned and nothing is logged.
FetchRate ==
    /\ pc = "rate"
    /\ \E out \in RateOutcomes :
          /\ usd_krw' = IF Hangs(out) THEN usd_krw
                        ELSE fetch_usd_krw_exchange_rate(out)
          /\ rate_out' = out.kind
          /\ errlog' = errlog \o ToFile(handler, RateLog(out))
          /\ console' = console \o ToConsole(handler, RateLog(out))
          /\ pc' = IF Hangs(out) THEN "hung" ELSE "rows"
    /\ idx' = 1
    /\ UNCHANGED <<has_private, handler, db_ok, table, n_add, locked, df, objcol, hist,
                   final, total, table_printed, total_printed, chart>>

\* Variant: every row is resolved again, cached or not.
NeedsResolveAlways(row) == TRUE

\* Line 116.
NeedsResolve(row) == IsNa(row.current_price)

\* Line 118.
NeedsConversion(row) == row.currency = "USD"

\* Line 119, cell * usd_krw, raises TypeError
\*   for every cell when the rate is None;
\*   for every cell but the int 0 when the rate is text (0 * "1300" is "");
\*   for a None cell when the rate is a number.
\* A cell of a float64 column is a float (NaN for NULL), never None and never
\* an int; a cell of an object column is None or what line 117 stored, and
\* there 0 is the int 0 of line 85 (no feed price is 0).
ConversionRaises(obj, price, rate) ==
    IF IsNa(rate) THEN TRUE
    ELSE IF rate = Str THEN ~(obj /\ price = 0)
    ELSE obj /\ IsNa(price)

\* Line 119 when it does not raise.
Converted(price, rate) ==
    IF rate = Str THEN EmptyStr ELSE Mul(price, rate)

\* Where the loop goes after the body of row i (the try of lines 115-122
\* is inside the loop: an exception ends the row, not the loop).
AfterRow(i, n, raised) ==
    IF i = n THEN "final" ELSE "rows"

\* One turn of the loop of lines 114-122, for row idx.  When the price
\* request never answers, fetch_current_price does not return: the cell is
\* not written and the loop does not go on.
ProcessRow ==
    /\ pc = "rows"
    /\ idx <= Len(df)
    /\ LET row == df[idx]
       IN  \E out \in (IF NeedsResolve(row) THEN FeedOutcomes(row.asset_type)
                       ELSE {Feed("-", 0)}) :
              LET asked  == NeedsResolve(row)
                  p1     == IF asked THEN fetch_current_price(row.asset_type, out)
                            ELSE row.current_price
                  raised == /\ ~Hangs(out)
                            /\ NeedsConversion(row)
                            /\ ConversionRaises(objcol, p1, usd_krw)
                  p2     == IF NeedsConversion(row) /\ ~raised
                            THEN Converted(p1, usd_krw) ELSE p1
                  msgs   == (IF asked
                             THEN PriceLog(row.asset_type, row.ticker_symbol, out)
                             ELSE <<>>)
                            \o (IF raised
                                THEN <<Rec("ERROR", "row", row.ticker_symbol)>>
                                ELSE <<>>)
              IN  /\ df' = IF Hangs(out) THEN df
                           ELSE [df EXCEPT ![idx].current_price = p2]
                  /\ hist' = [hist EXCEPT ![idx] =
                        [calls    |-> IF asked THEN @.calls + 1 ELSE @.calls,
                         contacts |-> IF asked
                                      THEN @.contacts + FeedContacts(row.asset_type)
                                      ELSE @.contacts,
                         feed     |-> out.kind,
                         fv       |-> out.v,
                         ret      |-> IF asked /\ ~Hangs(out) THEN p1 ELSE NaN,
                         raised   |-> raised]]
                  /\ errlog' = errlog \o ToFile(handler, msgs)
                  /\ console' = console \o ToConsole(handler, msgs)
                  /\ pc' = IF Hangs(out) THEN "hung"
                           ELSE AfterRow(idx, Len(df), raised)
                  /\ idx' = IF Hangs(out) THEN idx ELSE idx + 1
    /\ UNCHANGED <<has_private, handler, db_ok, table, n_add, locked, objcol, usd_krw,
                   rate_out, final, total, table_printed, total_printed, chart>>

\* current_price * quantity * leverage, in 1/200: NaN when the price or the
\* leverage is missing (quantity is NOT NULL).
Value(price, quantity, leverage) ==
    IF IsNa(price) \/ IsNa(leverage) THEN NaN
    ELSE 25 * price * quantity * leverage

\* Rounding to 2 decimals, half to even (numpy): in 1/200 an odd value is
\* exactly half a cent.
Round2(v) ==
    IF IsNa(v) THEN NaN
    ELSE IF v % 2 = 0 THEN v
    ELSE IF (v \div 2) % 2 = 0 THEN v - 1
    ELSE v + 1

\* Series.round(2) of line 123 when it returns.  The product of an object
\* column is an object Series, and pandas 2.x rounds numeric blocks only: an
\* object Series comes back unchanged.
SeriesRound2(v, obj) ==
    IF obj THEN v ELSE Round2(v)

\* Line 123, for one row.
FinalValue(row, obj) ==
    SeriesRound2(Value(row.current_price, row.quantity, row.leverage), obj)

\* The product of line 123 raises TypeError when a cell is "": text cannot
\* be multiplied by the float quantity.
ProductRaises(frame) ==
    \E i \in 1..Len(frame) : frame[i].current_price = EmptyStr

\* Line 123: the final_value column.  The line is outside every try: when it
\* raises, calculate_final_values raises and the script ends.  No pandas
\* release is pinned: on an object Series round returns it unchanged
\* (pandas 2.x) or raises TypeError (other releases).
ComputeFinal ==
    /\ pc = "final"
    /\ \E roundable \in BOOLEAN :
          LET raised == ProductRaises(df) \/ (objcol /\ ~roundable)
          IN  /\ roundable \/ (objcol /\ ~ProductRaises(df))
              /\ final' = IF raised THEN final
                          ELSE [i \in 1..Len(df) |-> FinalValue(df[i], objcol)]
              /\ pc' = IF raised THEN "crash_123" ELSE "print_table"
    /\ UNCHANGED <<has_private, handler, errlog, console, db_ok, table, n_add, locked,
                   df, objcol, usd_krw, rate_out, idx, hist, total,
                   table_printed, total_printed, chart>>

(***************************************************************************)
(* Report (lines 146-152)                                                  *)
(***************************************************************************)
\* Line 148.  The header and the cells of the frame are ASCII text here.
PrintTable ==
    /\ pc = "print_table"
    /\ table_printed' = TRUE
    /\ pc' = "print_total"
    /\ UNCHANGED <<has_private, handler, errlog, console, db_ok, table, n_add, locked,
                   df, objcol, usd_krw, rate_out, idx, hist, final, total,
                   total_printed, chart>>

\* Variant: sum(skipna=False), one NaN makes the sum NaN.
RECURSIVE SeriesSumNaN(_)
SeriesSumNaN(s) ==
    IF s = <<>> THEN 0
    ELSE IF IsNa(Head(s)) \/ IsNa(SeriesSumNaN(Tail(s))) THEN NaN
    ELSE Head(s) + SeriesSumNaN(Tail(s))

\* Series.sum() (line 150): skipna, NaN entries are left out.
RECURSIVE SeriesSum(_)
SeriesSum(s) ==
    IF s = <<>> THEN 0
    ELSE (IF IsNa(Head(s)) THEN 0 ELSE Head(s)) + SeriesSum(Tail(s))

\* Lines 150-151.  The line printed starts with Hangul text: on a stdout
\* whose encoding has no Hangul (ascii, latin-1) print raises
\* UnicodeEncodeError, which nothing catches: the script ends there.
PrintTotal ==
    /\ pc = "print_total"
    /\ total' = SeriesSum(final)
    /\ \E encodes \in BOOLEAN :
          /\ total_printed' = encodes
          /\ pc' = IF encodes THEN "chart" ELSE "crash_151"
    /\ UNCHANGED <<has_private, handler, errlog, console, db_ok, table, n_add, locked,
                   df, objcol, usd_krw, rate_out, idx, hist, final,
                   table_printed, chart>>

\* save_asset_distribution_chart (lines 127-137, called at line 152): the
\* figure is saved, or an exception is logged.
SaveChart ==
    /\ pc = "chart"
    /\ \E ok \in BOOLEAN :
          LET msgs == IF ok THEN <<>> ELSE <<Rec("ERROR", "chart", "-")>>
          IN  /\ chart' = IF ok THEN "saved" ELSE "failed"
              /\ errlog' = errlog \o ToFile(handler, msgs)
              /\ console' = console \o ToConsole(handler, msgs)
    /\ pc' = "done"
    /\ UNCHANGED <<has_private, handler, db_ok, table, n_add, locked, df, objcol,
                   usd_krw, rate_out, idx, hist, final, total, table_printed,
                   total_printed>>

Next ==
    \/ ImportPrivate
    \/ InitializeDb
    \/ AddAsset
    \/ SeedDone
    \/ GetAssets
    \/ FetchRate
    \/ ProcessRow
    \/ ComputeFinal
    \/ PrintTable
    \/ PrintTotal
    \/ SaveChart

Spec == Init /\ [][Next]_vars


(***************************************************************************)
(* Properties                                                              *)
(***************************************************************************)
\* The loop of lines 114-122 has finished every row of a non-empty frame.
RowsDone ==
    /\ df # <<>>
    /\ pc \in {"final", "print_table", "print_total", "chart", "done",
               "crash_123", "crash_151"}

\* Line 123 has run: calculate_final_values has returned.
Valued ==
    /\ df # <<>>
    /\ pc \in {"print_table", "print_total", "chart", "done", "crash_151"}

\* Line 123 raised on the product, as it does with every pandas release.
ProductRaised == pc = "crash_123" /\ ProductRaises(df)

\* calculate_final_values has ended: it returned, or its product raised.
ValuationEnded == Valued \/ ProductRaised

\* The price the store holds for row i (df rows are the rows of the table).
Stored(i) == table[i].current_price

\* The price row i starts from: the stored one, else what the resolver gave.
Base(i) == IF IsNa(Stored(i)) THEN hist[i].ret ELSE Stored(i)

\* Resolving or converting row i failed.
Failed(i) ==
    \/ hist[i].calls > 0 /\ IsNa(hist[i].ret)
    \/ hist[i].raised

\* The rate feed failed: request raised, status not 200, KRW missing.
RateFailed == rate_out \in {"non200", "nokey", "raise"}

\* The rate feed answered 200 without a usable rates.KRW.
RateMalformed == rate_out \in {"null", "text"}

\* The sum of the entries that are numbers, by index.
RECURSIVE SumPresent(_, _)
SumPresent(f, n) ==
    IF n = 0 THEN 0
    ELSE SumPresent(f, n - 1) + (IF IsNa(f[n]) THEN 0 ELSE f[n])

\* The sum of all entries as floats add: NaN as soon as one entry is NaN.
SumAll(f) ==
    IF \E i \in 1..Len(f) : IsNa(f[i]) THEN NaN ELSE SumPresent(f, Len(f))

----------------------------------------------------------------------------
\* C1: fetch_current_price is never invoked for a row whose stored
\* current_price is present; it is invoked only for rows whose price is
\* missing, and at most once for each.
C1_CacheRespected ==
    \A i \in 1..Len(hist) :
        /\ hist[i].calls <= 1
        /\ hist[i].calls = 1 => IsNa(Stored(i))
        /\ ~IsNa(Stored(i)) => hist[i].calls = 0 /\ hist[i].contacts = 0

\* A finished valuation with a cached row (never resolved) and a resolved row.
C1_Witness ==
    /\ RowsDone
    /\ \E i, j \in 1..Len(df) :
          /\ ~IsNa(Stored(i)) /\ table[i].asset_type = "stock"
          /\ hist[i].calls = 0
          /\ IsNa(Stored(j)) /\ hist[j].calls = 1

\* C2: when resolving or converting row i failed (the resolver gave no
\* price, or the row's processing raised), every other row j is in the
\* output of the valuation, with a final_value.
C2_Claim ==
    ValuationEnded =>
        \A i, j \in 1..Len(table) :
            (i # j /\ Failed(i)) =>
                /\ j \in DOMAIN final
                /\ df[j].id = table[j].id

\* C3: after calculate_final_values every row has
\* final_value = round(working price * quantity * leverage, 2).
C3_Claim ==
    Valued =>
        \A i \in 1..Len(df) :
            final[i] = Round2(Value(df[i].current_price, df[i].quantity,
                                    df[i].leverage))

\* C4: after the loop the working price of a USD row is base * rate, rate
\* being the rate fetched for the run (the multiplication is applied once to
\* every USD row), and the working price of any other row is base; base is
\* the stored price if present and else the resolver's result.  Stated for
\* the rows whose base is a price above 0.
C4_Claim ==
    RowsDone =>
        \A i \in 1..Len(df) :
            /\ (table[i].currency = "USD" /\ Base(i) > 0) =>
                  /\ ~hist[i].raised
                  /\ usd_krw >= 0
                  /\ df[i].current_price = Base(i) * usd_krw
            /\ table[i].currency # "USD" => df[i].current_price = Base(i)

\* C5 as stated: the total equals the sum of final_value over all rows, also
\* when some final_value is NaN (absent price, missing leverage).
C5_Claim ==
    total_printed => total = SumAll(final)

\* C5 amended: the total equals the sum of the final_value entries that are
\* numbers; a NaN final_value adds nothing.
C5_TotalSkipsNaN ==
    total_printed => total = SumPresent(final, Len(final))

\* A printed total over one valued row and one row without a value.
C5_Witness ==
    /\ total_printed
    /\ total > 0
    /\ \E i, j \in 1..Len(final) : IsNa(final[i]) /\ ~IsNa(final[j])

\* C6: whatever the feeds answer (success, non-success response, malformed
\* response, raised exception), calculate_final_values does not raise, and
\* its result has one row per asset read, each with a final_value.  Stated
\* for the product of line 123, which does not depend on the pandas release.
C6_Claim ==
    /\ ~ProductRaised
    /\ Valued =>
          /\ Len(df) = Len(table)
          /\ Len(final) = Len(table)

\* C7: when the rate feed fails in any way (request raises, status not 200,
\* no usable rates.KRW in the answer) the rate of the run is 1, every USD row
\* keeps its unconverted price and the run is not ended by an exception.
C7_Claim ==
    (RateFailed \/ RateMalformed) =>
        /\ usd_krw = 1
        /\ RowsDone =>
              \A i \in 1..Len(df) :
                  table[i].currency = "USD" => df[i].current_price = Base(i)
        /\ ~ProductRaised
        /\ pc # "crash_151"

\* C8: every failure of the stock feed, the crypto feed, the rate feed or of
\* a row's processing has a record in the error log.
C8_Claim ==
    /\ \A i \in 1..Len(hist) :
          /\ hist[i].feed \in {"empty", "non200", "badbody", "raise"} =>
                \E k \in 1..Len(errlog) :
                    errlog[k].src = "price"
                    /\ errlog[k].who = table[i].ticker_symbol
          /\ hist[i].raised =>
                \E k \in 1..Len(errlog) :
                    errlog[k].src = "row"
                    /\ errlog[k].who = table[i].ticker_symbol
    /\ RateFailed => \E k \in 1..Len(errlog) : errlog[k].src = "rate"

\* C9, for the runs that read at least one asset: the run that has ended
\* has attempted to print the table, then the total, then to write the chart.
C9_Claim ==
    (df # <<>> /\ pc \in {"done", "crash_151"}) =>
        table_printed /\ total_printed /\ chart # "none"

\* C10, last part, for a stock whose leverage is given: a stock with no
\* trading history has final_value 0.00 and the run is not aborted by the
\* valuation.
C10_Claim ==
    \A i \in 1..Len(hist) :
        (/\ table[i].asset_type = "stock"
         /\ hist[i].feed = "empty"
         /\ ~IsNa(table[i].leverage)) =>
            /\ ~ProductRaised
            /\ Valued => final[i] = 0
=============================================================================
